---- MODULE Spec2Model ----
(***************************************************************************)
(* A model of FnConeCone.py: the distance sorter radius, the two goodness  *)
(* of fit objectives errorSpearman and errorPolynome, and the orchestrator *)
(* conecone_CenterProfile with its two apex searches.                      *)
(*                                                                         *)
(* Numbers.  Planar coordinates and elevations are integers.  A distance   *)
(* is held in fixed point, Scale sub-units per coordinate unit, rounded    *)
(* down, as np.sqrt rounds to the resolution of a float.  A residual is an *)
(* exact fraction num/den.  Spearman's rho is held as the fraction         *)
(* sign(rho) * rho^2, which orders as rho does and lies in [-1, 1] exactly *)
(* when rho does.                                                          *)
(***************************************************************************)
EXTENDS Integers, Sequences, FiniteSets, TLC

\* ------------------------------------------------------------------ bounds
MaxCoord == 1
MaxN == 3
MaxIter == 2
Scale == 10

Xs == 0..MaxCoord
Ys == 0..1
Elev == 0..1
Lens == 1..MaxN
Apexes == Xs \X Ys
\* The tie order of np.argsort's default (unstable) sort is fixed by the
\* numpy build: ties leave in input order, or in reverse input order.
Kinds == {"stable", "reversed"}

VARIABLES
    kind,               \* the build's tie order in np.argsort
    pc,                 \* position in the running operation
    control_xUTM_m,     \* the caller's control-point sequences
    control_yUTM_m,
    control_z_m,
    x_center_guess,     \* the candidate apex / initial guess
    y_center_guess,
    prof,               \* radius(...) at the candidate apex
    prof2,              \* radius(...) of the reordered control points
    swapAt,             \* the adjacent positions exchanged by the reordering
    fP1,                \* to_be_minimizedP1 at the candidate apex
    fSp,                \* to_be_minimizedSp at the candidate apex
    simP1,              \* linear-fit search: best vertex so far
    simSp,              \* rank-correlation search: best vertex so far
    itP1,               \* linear-fit search: iterations done
    itSp,
    stP1,               \* linear-fit search: "idle", "run", "done", "error"
    stSp,
    resDic,             \* the record conecone_CenterProfile returns
    seen                \* an earlier call: its inputs and its record

vars == <<kind, pc, control_xUTM_m, control_yUTM_m, control_z_m,
          x_center_guess, y_center_guess, prof, prof2, swapAt, fP1, fSp,
          simP1, simSp, itP1, itSp, stP1, stSp, resDic, seen>>

\* ------------------------------------------------------------- arithmetic
Abs(a) == IF a < 0 THEN -a ELSE a

Max(a, b) == IF a >= b THEN a ELSE b

RECURSIVE GCD(_, _)
GCD(a, b) == IF b = 0 THEN a ELSE GCD(b, a % b)

RECURSIVE SeqSum(_)
SeqSum(s) == IF s = <<>> THEN 0 ELSE Head(s) + SeqSum(Tail(s))

Range(s) == {s[i] : i \in DOMAIN s}

\* The sequence <<F(1), ..., F(n)>>, element by element.
RECURSIVE Tab(_, _)
Tab(f, n) == IF n = 0 THEN <<>> ELSE Append(Tab(f, n - 1), f[n])

\* A fraction num/den, den > 0, in lowest terms.
Frac(num, den) ==
    LET g == GCD(Abs(num), den)
    IN  [num |-> num \div g, den |-> den \div g]

\* a < b for fractions, by whole parts first so that no product overflows.
FracLess(a, b) ==
    LET qa == a.num \div a.den
        qb == b.num \div b.den
    IN  \/ qa < qb
        \/ /\ qa = qb
           /\ (a.num % a.den) * b.den < (b.num % b.den) * a.den

\* np.sqrt of the integer n, in fixed point: the largest s with s^2 <= n*Scale^2.
SqrtOf(n) ==
    LET m == n * Scale * Scale
    IN  CHOOSE s \in 0..(n * Scale) : s * s <= m /\ (s + 1) * (s + 1) > m

\* The squared distances of the grid, 1..MaxD2, and their roots, tabulated.
MaxD2 == MaxCoord * MaxCoord + 1

SqrtTab == Tab([n \in 1..MaxD2 |-> SqrtOf(n)], MaxD2)

Sqrt(n) == IF n = 0 THEN 0 ELSE SqrtTab[n]

\* np.argsort(r): the index permutation that sorts r ascending; ties leave in
\* the order the build's sort gives them.
Before(r, i, j) ==
    \/ r[i] < r[j]
    \/ /\ r[i] = r[j]
       /\ IF kind = "stable" THEN i < j ELSE i > j

\* A faulty variant of argsort: ties are not told apart, so two equal
\* distances both yield the first of their indices.
argsortTies(r) ==
    LET n == Len(r)
        below(i) == Cardinality({j \in 1..n : r[j] < r[i]})
        same(i)  == Cardinality({j \in 1..n : r[j] = r[i]})
    IN  Tab([k \in 1..n |-> CHOOSE i \in 1..n :
                         /\ below(i) < k /\ k <= below(i) + same(i)
                         /\ \A j \in 1..(i - 1) : r[j] # r[i]], n)

argsort(r) ==
    LET n == Len(r)
        pos == Tab([i \in 1..n |-> 1 + Cardinality({j \in 1..n : Before(r, j, i)})], n)
    IN  Tab([k \in 1..n |-> CHOOSE i \in 1..n : pos[i] = k], n)

\* ------------------------------------------------------------------ radius
\* The failed call: the exception that leaves radius.
Raised(e) == [err |-> e, r |-> <<>>, z |-> <<>>, index |-> <<>>]

\* A faulty variant of radius: what its docstring says, both sequences
\* sorted depending on the elevation.
radiusByElevation(x, y, z, xa, ya) ==
    LET n == Len(x)
        r == Tab([i \in 1..n |-> Sqrt((x[i] - xa) * (x[i] - xa) + (y[i] - ya) * (y[i] - ya))], n)
        index == argsort(z)
    IN  [err |-> "none",
         r |-> Tab([k \in 1..n |-> r[index[k]]], n),
         z |-> Tab([k \in 1..n |-> z[index[k]]], n),
         index |-> index]

\* A faulty variant of radius: r is sorted and z is returned as it came.
radiusElevationAsGiven(x, y, z, xa, ya) ==
    LET n == Len(x)
        r == Tab([i \in 1..n |-> Sqrt((x[i] - xa) * (x[i] - xa) + (y[i] - ya) * (y[i] - ya))], n)
        index == argsort(r)
    IN  [err |-> "none",
         r |-> Tab([k \in 1..n |-> r[index[k]]], n),
         z |-> z,
         index |-> index]

radius(x, y, z, xa, ya) ==
    LET nx == Len(x)
        ny == Len(y)
    IN  IF ~(nx = ny \/ nx = 1 \/ ny = 1)
        THEN Raised("ValueError")       \* x and y do not broadcast
        ELSE
          LET n == Max(nx, ny)
              xi(i) == IF nx = 1 THEN x[1] ELSE x[i]
              yi(i) == IF ny = 1 THEN y[1] ELSE y[i]
              r == Tab([i \in 1..n |-> Sqrt((xi(i) - xa) * (xi(i) - xa)
                                           + (yi(i) - ya) * (yi(i) - ya))], n)
              index == argsort(r)
          IN  IF Len(z) < n
              THEN Raised("IndexError")  \* z[index] reads past the end of z
              ELSE [err |-> "none",
                    r |-> Tab([k \in 1..n |-> r[index[k]]], n),
                    z |-> Tab([k \in 1..n |-> z[index[k]]], n),
                    index |-> index]

\* ----------------------------------------------------------- errorSpearman
\* Twice the average rank of s[i] in s (ties share the mean of their ranks).
Rank2(s, i) ==
    2 * Cardinality({j \in DOMAIN s : s[j] < s[i]})
      + Cardinality({j \in DOMAIN s : s[j] = s[i]}) + 1

\* n*Sum(a*b) - Sum(a)*Sum(b): n^2 times the covariance of a and b.
Cov(a, b) ==
    LET n == Len(a)
    IN  n * SeqSum(Tab([i \in 1..n |-> a[i] * b[i]], n)) - SeqSum(a) * SeqSum(b)

NaN == [tag |-> "nan", num |-> 0, den |-> 1]

Value(num, den) == [tag |-> "value"] @@ Frac(num, den)

\* spearmanr(r, z_sorted)[0]: Pearson's correlation of the two rank
\* sequences; nan when either sequence is constant.
errorSpearman(r, z_sorted) ==
    LET n   == Len(r)
        a   == Tab([i \in 1..n |-> Rank2(r, i)], n)
        b   == Tab([i \in 1..n |-> Rank2(z_sorted, i)], n)
        sab == Cov(a, b)
        saa == Cov(a, a)
        sbb == Cov(b, b)
    IN  IF saa = 0 \/ sbb = 0
        THEN NaN
        ELSE Value((IF sab < 0 THEN -1 ELSE 1) * sab * sab, saa * sbb)

\* ----------------------------------------------------------- errorPolynome
Empty == [tag |-> "empty", num |-> 0, den |-> 1]

LinAlgError == [tag |-> "error", num |-> 0, den |-> 1]

\* np.polyfit(r, z_sorted, deg, full=True)[1] for the degree the search uses
\* (deg = 1): lstsq's residual, the sum of squared residuals as one element,
\* and an empty array when the fit is rank deficient or has no more points
\* than coefficients.  polyfit scales each column by its norm; a column of
\* zeros (every r is 0) divides by zero and the decomposition fails.
errorPolynome(r, z_sorted, deg) ==
    LET n    == Len(r)
        rank == IF Cardinality(Range(r)) >= deg + 1 THEN deg + 1
                ELSE Cardinality(Range(r))
        drr  == Cov(r, r)
        dzz  == Cov(z_sorted, z_sorted)
        drz  == Cov(r, z_sorted)
    IN  IF Range(r) = {0} THEN LinAlgError
        ELSE IF rank < deg + 1 \/ n <= deg + 1 THEN Empty
        ELSE Value(dzz * drr - drz * drz, n * drr)

\* ------------------------------------------------- the objective functions
\* The closures of conecone_CenterProfile over the caller's control points.
\* An exception of radius leaves the objective as it is.
RaisedValue == [tag |-> "raised", num |-> 0, den |-> 1]

to_be_minimizedP1[apex_coord \in Apexes] ==
    LET p == radius(control_xUTM_m, control_yUTM_m, control_z_m,
                    apex_coord[1], apex_coord[2])
    IN  IF p.err # "none" THEN RaisedValue ELSE errorPolynome(p.r, p.z, 1)

to_be_minimizedSp[apex_coord \in Apexes] ==
    LET p == radius(control_xUTM_m, control_yUTM_m, control_z_m,
                    apex_coord[1], apex_coord[2])
    IN  IF p.err # "none" THEN RaisedValue ELSE errorSpearman(p.r, p.z)

\* ----------------------------------------------------------------- states
Unset == [err |-> "unset", r |-> <<>>, z |-> <<>>, index |-> <<>>]

NoValue == [tag |-> "unset", num |-> 0, den |-> 1]

NoRecord == [status |-> "none"]

NoCall == [status |-> "none"]

\* ------------------------------------------------------------------- fmin
\* scipy.optimize.fmin, the derivative-free local minimizer, on the grid of
\* candidate apexes: from the best vertex so far it evaluates the objective
\* at the vertex and at its neighbours, moves to the first of the lowest
\* neighbours when that one is strictly lower, and stops when none is or
\* when the iteration budget is spent (silently, with the best vertex so
\* far).  An objective value that is no scalar (an empty array, an
\* exception) ends the search with that exception.  A nan is never lower
\* than anything and anything is lower than a nan.
Neighbours(a) ==
    SelectSeq(<< <<a[1] + 1, a[2]>>, <<a[1] - 1, a[2]>>,
                 <<a[1], a[2] + 1>>, <<a[1], a[2] - 1>> >>,
              LAMBDA q : q \in Apexes)

Scalar(v) == v.tag \in {"value", "nan"}

Lower(a, b) == a.tag = "value" /\ (b.tag = "nan" \/ FracLess(a, b))

fminIter(func, sim) ==
    LET cand == Neighbours(sim)
        m    == Len(cand)
        fs   == func[sim]
        fc   == Tab([k \in 1..m |-> func[cand[k]]], m)
        lowest(k) == \A j \in 1..m : ~Lower(fc[j], fc[k])
        best == CHOOSE k \in 1..m : lowest(k) /\ \A j \in 1..(k - 1) : ~lowest(j)
    IN  IF ~Scalar(fs) \/ \E k \in 1..m : ~Scalar(fc[k])
        THEN [st |-> "error", sim |-> sim]
        ELSE IF Lower(fc[best], fs)
        THEN [st |-> "run", sim |-> cand[best]]
        ELSE [st |-> "done", sim |-> sim]

\* One step of a running search: its state after the step.
fminStep(func, st, sim, it, x0) ==
    IF st = "idle" THEN [st |-> "run", sim |-> x0, it |-> 0]
    ELSE IF it = MaxIter THEN [st |-> "done", sim |-> sim, it |-> it]
    ELSE LET n == fminIter(func, sim)
         IN  [st |-> n.st, sim |-> n.sim, it |-> it + 1]

\* fmin(func, x0) run to its end: "done" with the vertex returned, or "error".
RECURSIVE fminRun(_, _, _)
fminRun(func, sim, it) ==
    IF it = MaxIter THEN [st |-> "done", sim |-> sim]
    ELSE LET n == fminIter(func, sim)
         IN  IF n.st = "run" THEN fminRun(func, n.sim, it + 1) ELSE n

fmin(func, x0) == fminRun(func, x0, 0)

\* ------------------------------------------------- conecone_CenterProfile
\* A faulty variant of x0P1: a start point kept across calls, the vertex the
\* remembered call's rank-correlation search ended at.
x0P1Warm ==
    IF seen.status = "some" /\ seen.out.status = "ok"
    THEN seen.out.BestCenter_Sp_xy
    ELSE <<x_center_guess, y_center_guess>>

\* A faulty variant of x0Sp: the second search starts at the first one's vertex.
x0SpWarm == simP1

\* x0=[x_center_guess,y_center_guess] of each of the two fmin calls.
x0P1 == <<x_center_guess, y_center_guess>>

x0Sp == <<x_center_guess, y_center_guess>>

\* A faulty variant of resDicOf: the two methods' entries under each other's keys.
resDicSwapped(BestCenter_P1, BestCenter_Sp) ==
    LET pP1 == radius(control_xUTM_m, control_yUTM_m, control_z_m,
                      BestCenter_P1[1], BestCenter_P1[2])
        pSp == radius(control_xUTM_m, control_yUTM_m, control_z_m,
                      BestCenter_Sp[1], BestCenter_Sp[2])
    IN  [status |-> "ok",
         BestCenter_LR_xy |-> BestCenter_Sp,
         RadiusModel_controlPoint_LR |-> pSp.r,
         Elevation_controlPoint_LR |-> pSp.z,
         BestCenter_Sp_xy |-> BestCenter_P1,
         RadiusModel_controlPoint_Sp |-> pP1.r,
         Elevation_controlPoint_Sp |-> pP1.z]

\* The profiles at the two best centers and the record returned.
resDicOf(BestCenter_P1, BestCenter_Sp) ==
    LET pP1 == radius(control_xUTM_m, control_yUTM_m, control_z_m,
                      BestCenter_P1[1], BestCenter_P1[2])
        pSp == radius(control_xUTM_m, control_yUTM_m, control_z_m,
                      BestCenter_Sp[1], BestCenter_Sp[2])
    IN  [status |-> "ok",
         BestCenter_LR_xy |-> BestCenter_P1,
         RadiusModel_controlPoint_LR |-> pP1.r,
         Elevation_controlPoint_LR |-> pP1.z,
         BestCenter_Sp_xy |-> BestCenter_Sp,
         RadiusModel_controlPoint_Sp |-> pSp.r,
         Elevation_controlPoint_Sp |-> pSp.z]

EvalUnchanged == UNCHANGED <<prof, prof2, swapAt, fP1, fSp>>

SearchUnchanged ==
    UNCHANGED <<simP1, simSp, itP1, itSp, stP1, stSp, resDic, seen>>

InputsUnchanged ==
    UNCHANGED <<kind, control_xUTM_m, control_yUTM_m, control_z_m,
                x_center_guess, y_center_guess>>

EvalIdle ==
    /\ prof = Unset /\ prof2 = Unset /\ swapAt = 0
    /\ fP1 = NoValue /\ fSp = NoValue

SearchIdle ==
    /\ simP1 = <<0, 0>> /\ simSp = <<0, 0>>
    /\ itP1 = 0 /\ itSp = 0
    /\ stP1 = "idle" /\ stSp = "idle"
    /\ resDic = NoRecord
    /\ seen = NoCall

\* Before the first call.
Init ==
    /\ kind \in Kinds
    /\ pc = "idle"
    /\ control_xUTM_m = <<>> /\ control_yUTM_m = <<>> /\ control_z_m = <<>>
    /\ x_center_guess = 0 /\ y_center_guess = 0
    /\ EvalIdle
    /\ SearchIdle

\* The grid positions in a fixed order, and the surveys: control points at
\* distinct positions, in that order, each with an elevation.
NPos == 2 * (MaxCoord + 1)

PosOf(k) == <<(k - 1) \div 2, (k - 1) % 2>>

Ordered(S) ==
    Tab([i \in 1..Cardinality(S) |->
           CHOOSE e \in S : Cardinality({d \in S : d < e}) = i - 1],
        Cardinality(S))

Layouts == {Ordered(S) : S \in {T \in SUBSET (1..NPos) : Cardinality(T) \in Lens}}

\* The entry of conecone_CenterProfile with the given arguments.
Enter(x, y, z, gx, gy) ==
    /\ pc = "idle"
    /\ pc' = "search"
    /\ control_xUTM_m' = x
    /\ control_yUTM_m' = y
    /\ control_z_m' = z
    /\ x_center_guess' = gx
    /\ y_center_guess' = gy
    /\ simP1' = <<0, 0>> /\ simSp' = <<0, 0>>
    /\ itP1' = 0 /\ itSp' = 0
    /\ stP1' = "idle" /\ stSp' = "idle"
    /\ resDic' = NoRecord
    /\ UNCHANGED <<kind, seen>>
    /\ EvalUnchanged

Call ==
    /\ pc = "idle"
    /\ \E l \in Layouts, g \in Apexes :
      \E z \in [1..Len(l) -> Elev] :
        Enter(Tab([i \in 1..(Len(l)) |-> PosOf(l[i])[1]], Len(l)),
              Tab([i \in 1..(Len(l)) |-> PosOf(l[i])[2]], Len(l)),
              Tab([i \in 1..(Len(l)) |-> z[i]], Len(l)), g[1], g[2])

\* BestCenter_P1 = fmin(func=to_be_minimizedP1, x0=[...]): one step of it.
\* An exception of the objective leaves conecone_CenterProfile.
StepP1 ==
    /\ pc = "search"
    /\ stP1 \in {"idle", "run"}
    /\ \E n \in {fminStep(to_be_minimizedP1, stP1, simP1, itP1, x0P1)} :
           /\ stP1' = n.st
           /\ simP1' = n.sim
           /\ itP1' = n.it
           /\ pc' = IF n.st = "error" THEN "failed" ELSE pc
    /\ UNCHANGED <<simSp, itSp, stSp, resDic, seen>>
    /\ InputsUnchanged
    /\ EvalUnchanged

\* BestCenter_Sp = fmin(func=to_be_minimizedSp, x0=[...]): one step of it.
SpIter ==
    /\ pc = "search"
    /\ stSp \in {"idle", "run"}
    /\ \E n \in {fminStep(to_be_minimizedSp, stSp, simSp, itSp, x0Sp)} :
           /\ stSp' = n.st
           /\ simSp' = n.sim
           /\ itSp' = n.it
           /\ pc' = IF n.st = "error" THEN "failed" ELSE pc
    /\ UNCHANGED <<simP1, itP1, stP1, resDic, seen>>
    /\ InputsUnchanged
    /\ EvalUnchanged

\* The statement order of the source: the second search follows the first.
StepSp == stP1 = "done" /\ SpIter

\* The two radius calls at the best centers and the record.
Assemble ==
    /\ pc = "search"
    /\ stP1 = "done" /\ stSp = "done"
    /\ resDic' = resDicOf(simP1, simSp)
    /\ pc' = "done"
    /\ UNCHANGED <<simP1, simSp, itP1, itSp, stP1, stSp, seen>>
    /\ InputsUnchanged
    /\ EvalUnchanged

\* The state between two calls: the callee's locals are gone.
Left ==
    /\ pc' = "idle"
    /\ control_xUTM_m' = <<>> /\ control_yUTM_m' = <<>> /\ control_z_m' = <<>>
    /\ x_center_guess' = 0 /\ y_center_guess' = 0
    /\ simP1' = <<0, 0>> /\ simSp' = <<0, 0>>
    /\ itP1' = 0 /\ itSp' = 0
    /\ stP1' = "idle" /\ stSp' = "idle"
    /\ resDic' = NoRecord
    /\ UNCHANGED kind
    /\ EvalUnchanged

\* The call is over: the record is returned, or the exception has left.
Return ==
    /\ pc \in {"done", "failed"}
    /\ Left
    /\ UNCHANGED seen

Next == Call \/ StepP1 \/ StepSp \/ Assemble \/ Return

Spec == Init /\ [][Next]_vars

\* ------------------------------------------------- the searches interleaved
\* The two searches as two activities: each steps whenever it has not ended.
NextPar == Call \/ StepP1 \/ SpIter \/ Assemble \/ Return

SpecPar == Init /\ [][NextPar]_vars

\* --------------------------------------------------------- a series of calls
\* What a call hands back: the record, or the exception.
Outcome == IF pc = "done" THEN resDic ELSE [status |-> "raised"]

Arguments ==
    <<control_xUTM_m, control_yUTM_m, control_z_m, x_center_guess, y_center_guess>>

\* One survey layout (the first MaxN grid positions), any elevations, any guess.
CallLayout ==
    /\ pc = "idle"
    /\ \E g \in Apexes, z \in [1..MaxN -> Elev] :
      Enter(Tab([i \in 1..MaxN |-> PosOf(i)[1]], MaxN),
            Tab([i \in 1..MaxN |-> PosOf(i)[2]], MaxN),
            Tab([i \in 1..MaxN |-> z[i]], MaxN), g[1], g[2])

\* The call is over and the caller keeps what it was given and what it got.
Remember ==
    /\ pc \in {"done", "failed"}
    /\ seen' = [status |-> "some", args |-> Arguments, out |-> Outcome]
    /\ Left

NextCalls == CallLayout \/ StepP1 \/ StepSp \/ Assemble \/ Return \/ Remember

SpecCalls == Init /\ [][NextCalls]_vars

\* ------------------------------------------------------- a perfect cone
\* Three or more control points on a perfect cone, z = A - k*r for the
\* distance r to a true apex, none of them at the apex itself, and the call
\* with the true apex as the guess.
Slope == 1

ConeZ(x, y, apex) ==
    LET p == radius(x, y, x, apex[1], apex[2])
        d == Tab([i \in 1..(Len(x)) |-> p.r[CHOOSE k \in 1..Len(x) : p.index[k] = i]], Len(x))
        A == Slope * p.r[Len(x)]
    IN  Tab([i \in 1..(Len(x)) |-> A - Slope * d[i]], Len(x))

CallCone ==
    /\ pc = "idle"
    /\ \E n \in 3..MaxN, g \in Apexes :
      \E x \in [1..n -> Xs], y \in [1..n -> Ys] :
        LET xs == Tab([i \in 1..n |-> x[i]], n)
            ys == Tab([i \in 1..n |-> y[i]], n)
        IN  /\ \A i \in 1..n : <<x[i], y[i]>> # g
            /\ Enter(xs, ys, ConeZ(xs, ys, g), g[1], g[2])

NextCone == CallCone \/ StepP1 \/ StepSp \/ Assemble \/ Return

SpecCone == Init /\ [][NextCone]_vars

\* ------------------------------------------ evaluation at a candidate apex
\* Control points of equal length (the data model's invariant), in any
\* order and at any positions, and a candidate apex.
InitEval ==
    /\ kind \in Kinds
    /\ pc = "start"
    /\ \E n \in Lens :
         /\ control_xUTM_m \in [1..n -> Xs]
         /\ control_yUTM_m \in [1..n -> Ys]
         /\ control_z_m \in [1..n -> Elev]
    /\ x_center_guess \in Xs
    /\ y_center_guess \in Ys
    /\ EvalIdle
    /\ SearchIdle

\* radius at the candidate apex.
CallRadius ==
    /\ pc = "start"
    /\ pc' = "evaluated"
    /\ prof' = radius(control_xUTM_m, control_yUTM_m, control_z_m,
                      x_center_guess, y_center_guess)
    /\ UNCHANGED <<prof2, swapAt, fP1, fSp>>
    /\ InputsUnchanged
    /\ SearchUnchanged

\* s with the elements at positions i and i+1 exchanged.
Swap(s, i) ==
    Tab([k \in 1..Len(s) |->
           IF k = i THEN s[i + 1] ELSE IF k = i + 1 THEN s[i] ELSE s[k]],
        Len(s))

\* The same control points handed over in another order (one adjacent
\* exchange, applied to x, y and z alike), and radius at the same apex.
Reorder ==
    /\ pc = "evaluated"
    /\ \E i \in 1..(Len(control_xUTM_m) - 1) :
         /\ swapAt' = i
         /\ prof2' = radius(Swap(control_xUTM_m, i), Swap(control_yUTM_m, i),
                            Swap(control_z_m, i), x_center_guess, y_center_guess)
    /\ pc' = "reordered"
    /\ UNCHANGED <<prof, fP1, fSp>>
    /\ InputsUnchanged
    /\ SearchUnchanged

NextRadius == CallRadius \/ Reorder

SpecRadius == InitEval /\ [][NextRadius]_vars

\* Calls of radius and calls of conecone_CenterProfile side by side.
NextAll == Next \/ CallRadius

SpecAll == (Init \/ InitEval) /\ [][NextAll]_vars

\* Both objectives at the candidate apex.
CallObjectives ==
    /\ pc = "start"
    /\ pc' = "evaluated"
    /\ fP1' = to_be_minimizedP1[<<x_center_guess, y_center_guess>>]
    /\ fSp' = to_be_minimizedSp[<<x_center_guess, y_center_guess>>]
    /\ UNCHANGED <<prof, prof2, swapAt>>
    /\ InputsUnchanged
    /\ SearchUnchanged

NextFit == CallObjectives

\* The profiles of the data model: three or more control points, none of
\* them at the candidate apex itself.
InitFit ==
    /\ InitEval
    /\ Len(control_xUTM_m) >= 3
    /\ \A i \in DOMAIN control_xUTM_m :
         <<control_xUTM_m[i], control_yUTM_m[i]>> # <<x_center_guess, y_center_guess>>

SpecFit == InitFit /\ [][NextFit]_vars

\* Control sequences of any lengths, equal or not.
InitShape ==
    /\ kind \in Kinds
    /\ pc = "start"
    /\ \E nx \in Lens, ny \in Lens, nz \in Lens :
         /\ control_xUTM_m \in [1..nx -> Xs]
         /\ control_yUTM_m \in [1..ny -> Ys]
         /\ control_z_m \in [1..nz -> Elev]
    /\ x_center_guess \in Xs
    /\ y_center_guess \in Ys
    /\ EvalIdle
    /\ SearchIdle

NextShape == CallRadius

SpecShape == InitShape /\ [][NextShape]_vars

\* ------------------------------------------------------------ properties
N == Len(control_xUTM_m)

EqualLengths == Len(control_yUTM_m) = N /\ Len(control_z_m) = N

Guess == <<x_center_guess, y_center_guess>>

\* The distance of control point i to the apex a, from the definition.
DistTo(a, i) ==
    Sqrt((control_xUTM_m[i] - a[1]) * (control_xUTM_m[i] - a[1])
         + (control_yUTM_m[i] - a[2]) * (control_yUTM_m[i] - a[2]))

Ascending(s) == \A k \in 1..(Len(s) - 1) : s[k] <= s[k + 1]

IsPermutation(ix, n) == Len(ix) = n /\ Range(ix) = 1..n

\* How many positions of the profile (r, z) hold the pair p.
Count(r, z, p) == Cardinality({k \in DOMAIN r : <<r[k], z[k]>> = p})

\* (r, z) holds the control points' (distance to a, elevation) pairs, each
\* as often as the control points do.
SamePoints(r, z, a) ==
    /\ Len(r) = N /\ Len(z) = N
    /\ \A i \in 1..N :
         Count(r, z, <<DistTo(a, i), control_z_m[i]>>)
           = Cardinality({j \in 1..N :
               DistTo(a, j) = DistTo(a, i) /\ control_z_m[j] = control_z_m[i]})

C2_NoPointLost ==
    /\ pc = "evaluated" => SamePoints(prof.r, prof.z, Guess)
    /\ pc = "done" =>
         /\ SamePoints(resDic.RadiusModel_controlPoint_LR,
                       resDic.Elevation_controlPoint_LR, resDic.BestCenter_LR_xy)
         /\ SamePoints(resDic.RadiusModel_controlPoint_Sp,
                       resDic.Elevation_controlPoint_Sp, resDic.BestCenter_Sp_xy)

\* C2's case: radius has reordered three control points of which two are at
\* one distance with different elevations.
C2_Witness ==
    /\ pc = "evaluated"
    /\ N = 3
    /\ prof.r[1] = prof.r[2] /\ prof.z[1] # prof.z[2]
    /\ prof.index # <<1, 2, 3>>

\* Control points at one distance from the candidate apex have one elevation.
TiesAgree ==
    \A i, j \in 1..N :
      DistTo(Guess, i) = DistTo(Guess, j) => control_z_m[i] = control_z_m[j]

\* C3 as stated: for every control-point set, ties included, radius of the
\* reordered control points returns the same r and the same z.  (Every
\* permutation is a chain of adjacent exchanges, and every order of the
\* control points is an input here.)
C3_Equivariant ==
    pc = "reordered" => prof2.r = prof.r /\ prof2.z = prof.z

\* C3 amended: the r sequence is the same for every reordering; the z
\* sequence is the same whenever control points at equal distance from the
\* apex have equal elevations.
C3_EquivariantUpToTies ==
    pc = "reordered" =>
      /\ prof2.r = prof.r
      /\ TiesAgree => prof2.z = prof.z

\* C3's case: two control points of different distance and elevation were
\* exchanged, the ties agree, and a tie exists.
C3_Witness ==
    /\ pc = "reordered"
    /\ N = 3
    /\ TiesAgree
    /\ DistTo(Guess, swapAt) # DistTo(Guess, swapAt + 1)
    /\ control_z_m[swapAt] # control_z_m[swapAt + 1]
    /\ prof.r[1] = prof.r[2] \/ prof.r[2] = prof.r[3]

\* C4: whenever the lengths of x, y and z are not all equal, radius fails
\* with an error; it never returns a result.
C4_ShapeMismatch ==
    (pc = "evaluated" /\ ~EqualLengths) => prof.err # "none"

\* C5: in the record, each profile is radius of the original control points
\* at the apex stored under the same method, and each apex is the final
\* vertex of that method's search from the guess.
C5_KeyedProfiles ==
    pc = "done" =>
      LET pLR == radius(control_xUTM_m, control_yUTM_m, control_z_m,
                        resDic.BestCenter_LR_xy[1], resDic.BestCenter_LR_xy[2])
          pSp == radius(control_xUTM_m, control_yUTM_m, control_z_m,
                        resDic.BestCenter_Sp_xy[1], resDic.BestCenter_Sp_xy[2])
      IN  /\ resDic.RadiusModel_controlPoint_LR = pLR.r
          /\ resDic.Elevation_controlPoint_LR = pLR.z
          /\ resDic.RadiusModel_controlPoint_Sp = pSp.r
          /\ resDic.Elevation_controlPoint_Sp = pSp.z
          /\ resDic.BestCenter_LR_xy = fmin(to_be_minimizedP1, Guess).sim
          /\ resDic.BestCenter_Sp_xy = fmin(to_be_minimizedSp, Guess).sim

\* C5's case: the two searches ended at different apexes, the linear-fit
\* one away from the guess, and the two profiles differ.
C5_Witness ==
    /\ pc = "done"
    /\ resDic.BestCenter_LR_xy # resDic.BestCenter_Sp_xy
    /\ resDic.BestCenter_LR_xy # Guess
    /\ resDic.RadiusModel_controlPoint_LR # resDic.RadiusModel_controlPoint_Sp
    /\ resDic.Elevation_controlPoint_LR # resDic.Elevation_controlPoint_Sp

\* C6: for a perfect cone and the true apex as the guess, the linear-fit
\* objective at the true apex is 0, the rank-correlation objective there is
\* -1, and both searches return the true apex.
C6_PerfectCone ==
    pc \in {"search", "done", "failed"} =>
      /\ to_be_minimizedP1[Guess] = Value(0, 1)
      /\ to_be_minimizedSp[Guess] = Value(-1, 1)
      /\ pc # "failed"
      /\ pc = "done" =>
           /\ resDic.BestCenter_LR_xy = Guess
           /\ resDic.BestCenter_Sp_xy = Guess

\* C7: errorSpearman returns a defined scalar rho with -1 <= rho <= 1 for
\* every profile, constant sequences included.
C7_RhoInRange ==
    pc = "evaluated" =>
      /\ fSp.tag = "value"
      /\ -fSp.den <= fSp.num /\ fSp.num <= fSp.den

\* C8: with more control points than coefficients (N >= 3 for degree 1)
\* errorPolynome returns one defined sum of squared residuals, at every
\* candidate apex; an empty residual is returned only when N <= 2.
C8_ResidualDefined ==
    pc = "evaluated" =>
      /\ N >= 3 => fP1.tag = "value" /\ fP1.num >= 0
      /\ fP1.tag # "value" => N <= 2

\* What the statements of the source, run in their order, hand back.
SequentialOutcome ==
    LET a == fmin(to_be_minimizedP1, Guess)
        b == fmin(to_be_minimizedSp, Guess)
    IN  IF a.st = "error" \/ b.st = "error"
        THEN [status |-> "raised"]
        ELSE resDicOf(a.sim, b.sim)

\* C9: the two searches are independent: each starts from the guess, and
\* with their steps interleaved in any way the call hands back what the
\* sequential order hands back.
C9_Independent ==
    /\ (stP1 = "run" /\ itP1 = 0) => simP1 = Guess
    /\ (stSp = "run" /\ itSp = 0) => simSp = Guess
    /\ pc \in {"done", "failed"} => Outcome = SequentialOutcome

\* C9's case: the rank-correlation search has ended, away from the guess,
\* while the linear-fit search is still under way, away from the guess too.
C9_Witness ==
    /\ pc = "search"
    /\ stSp = "done" /\ simSp # Guess
    /\ stP1 = "run" /\ simP1 # Guess

\* C10: a call with the arguments of an earlier call hands back what the
\* earlier call handed back, whatever calls were made in between.
C10_Pure ==
    (seen.status = "some" /\ pc \in {"done", "failed"} /\ seen.args = Arguments)
      => seen.out = Outcome

\* C10's case: a later call with the remembered arguments has returned a
\* record whose linear-fit apex is not the guess.
C10_Witness ==
    /\ seen.status = "some"
    /\ pc = "done"
    /\ seen.args = Arguments
    /\ resDic.BestCenter_LR_xy # Guess

====
